---------------------------- MODULE Spec2Model ----------------------------
(***************************************************************************)
(* Model of validate_theorem.py: NumberValidator (binary expansion of the  *)
(* fractional part, zero-run scan, bound analysis, statistics) and the     *)
(* batch driver run_analysis / create_report.                              *)
(*                                                                         *)
(* Numbers are scaled down so that the state space is finite:              *)
(*   - a Python float is a binary fraction m / 2^FloatBits (binary64 has   *)
(*     53 significant bits; here FloatBits fractional bits);               *)
(*   - str(float) is the shortest decimal that reads back as the same      *)
(*     float, as Python's repr produces it;                                *)
(*   - mp.mpf(string) is that decimal rounded to nearest-even at the       *)
(*     working precision of mpmath, dps_to_prec(mp.dps) bits;              *)
(*   - an mpf lying in [0, 2) is held as a numerator over Unit(dps);       *)
(*   - a Python float ratio/bound is an exact fraction [num, den], with    *)
(*     den = 0 standing for float('inf'); math.log2 is a table in          *)
(*     hundredths, exact at the powers of two as math.log2 is.             *)
(* Only non-negative numbers are drawn.                                    *)
(***************************************************************************)
EXTENDS Integers, Sequences, FiniteSets, TLC

VARIABLES
    pc,                 \* position of the running program
    mp_dps,             \* mpmath's process-wide mp.dps
    decimal_prec,       \* decimal.getcontext().prec
    precision,          \* NumberValidator.precision (0 before construction)
    number,             \* validate_number argument: m of the float m / 2^FloatBits
    factor,             \* validate_number argument: <<numerator, denominator>>
    length,             \* validate_number argument
    is_transcendental,  \* validate_number argument
    mp_frac,            \* get_binary_expansion: numerator of mp_frac over Unit(mp_dps)
    binary,             \* get_binary_expansion: the bits produced so far
    i,                  \* find_zero_runs: index of the next bit (0-based)
    runs,               \* find_zero_runs: the runs emitted, <<start, length>>
    current_run,        \* find_zero_runs
    start_position,     \* find_zero_runs (-1 is None)
    k,                  \* validate_number: number of zero_runs already visited
    run_data,           \* validate_number
    violations,         \* validate_number
    max_ratio,          \* validate_number
    result,             \* the dict validate_number returned (present = FALSE: none)
    error,              \* the exception that left validate_number ("" is none)
    test_cases,         \* run_analysis: the batch
    results,            \* run_analysis: the (case, result) pairs
    report              \* create_report: report_data as dumped (<<"none">> before)

vars == <<pc, mp_dps, decimal_prec, precision, number, factor, length,
          is_transcendental, mp_frac, binary, i, runs, current_run,
          start_position, k, run_data, violations, max_ratio, result, error,
          test_cases, results, report>>

(***************************************************************************)
(* Bounds of the model.                                                    *)
(***************************************************************************)
FloatBits == 3          \* fractional bits of an input float
MaxLen == 8             \* largest requested expansion length
MaxPrecision == 2       \* largest precision (decimal digits) of a validator
ModulePrecision == 1    \* the precision set when the module is loaded
MaxCases == 2           \* largest number of test cases in a batch

RECURSIVE Pow2(_)
Pow2(n) == IF n = 0 THEN 1 ELSE 2 * Pow2(n - 1)

RECURSIVE Pow10(_)
Pow10(n) == IF n = 0 THEN 1 ELSE 10 * Pow10(n - 1)

Abs(x) == IF x < 0 THEN -x ELSE x

\* Round the fraction p / q (p >= 0, q > 0) to the nearest integer, ties to even.
RoundHalfEven(p, q) ==
    LET fl == p \div q
        rem == p % q
    IN  IF 2 * rem < q THEN fl
        ELSE IF 2 * rem > q THEN fl + 1
        ELSE IF fl % 2 = 0 THEN fl ELSE fl + 1

\* The floats the model draws: m stands for m / 2^FloatBits, in [0, 2).
Numbers == 0 .. (2 * Pow2(FloatBits) - 1)

\* float(n / 10^d) = m / 2^FloatBits: the decimal reads back as the float m.
ReadsBackAs(n, d, m) ==
    LET diff == Abs(n * Pow2(FloatBits) - m * Pow10(d))
    IN  \/ 2 * diff < Pow10(d)
        \/ 2 * diff = Pow10(d) /\ m % 2 = 0

\* The decimal with d places nearest to the float m.
Nearest(m, d) == RoundHalfEven(m * Pow10(d), Pow2(FloatBits))

\* str(num): the shortest decimal that reads back as the float (repr). With
\* FloatBits places the decimal is exact, so the choice always exists.
Str(m) ==
    LET d == CHOOSE d \in 1 .. FloatBits :
                 /\ ReadsBackAs(Nearest(m, d), d, m)
                 /\ \A c \in 1 .. (d - 1) : ~ReadsBackAs(Nearest(m, c), c, m)
    IN  [digits |-> Nearest(m, d), places |-> d]

\* mpmath's working precision in bits for mp.dps = n:
\* dps_to_prec(n) = max(1, int(round((n + 1) * 3.3219280948873626))).
DpsToPrec(n) == ((n + 1) * 33219 + 5000) \div 10000

\* An mpf in [0, 2) at precision dps is a numerator over Unit(dps).
Unit(dps) == Pow2(DpsToPrec(dps) + FloatBits + 1)

\* mp.mpf(s) for the decimal s = digits / 10^places: the decimal rounded to
\* DpsToPrec(dps) significant bits, nearest-even, as a numerator over Unit(dps).
Mpf(s, dps) ==
    IF s.digits = 0 THEN 0
    ELSE LET prec == DpsToPrec(dps)
             ten == Pow10(s.places)
             \* the value lies in [2^-j, 2^(1-j))
             j == CHOOSE j \in 0 .. (FloatBits + 2) :
                      /\ s.digits * Pow2(j) >= ten
                      /\ (j = 0 \/ s.digits * Pow2(j - 1) < ten)
             man == RoundHalfEven(s.digits * Pow2(prec - 1 + j), ten)
         IN  man * Pow2(FloatBits + 2 - j)

(***************************************************************************)
(* Float ratios as exact fractions.                                        *)
(***************************************************************************)
Frac(n, d) == [num |-> n, den |-> d]
Inf == Frac(1, 0)                       \* float('inf')
Less(a, b) == a.num * b.den < b.num * a.den
IsFinite(a) == a.den # 0

\* math.log2(n) in hundredths, n in 1 .. 16.
Log2x100(n) ==
    <<0, 100, 158, 200, 232, 258, 281, 300,
      317, 332, 346, 358, 370, 381, 391, 400>>[n]

\* bound = factor * math.log2(position + 1)
Bound(fac, position) == Frac(fac[1] * Log2x100(position + 1), fac[2] * 100)

\* ratio = run_length / bound if bound > 0 else float('inf')
Ratio(run_length, bound) ==
    IF bound.num > 0 THEN Frac(run_length * bound.den, bound.num) ELSE Inf

MaxKeepsLatest(a, b) == b

\* max(max_ratio, ratio): Python's max keeps the first unless the second is larger.
Max(a, b) == IF Less(a, b) THEN b ELSE a

SkipsNothing(position) == position < 0

\* if position < 1: continue
SkipsRun(position) == position < 1

IsViolationOrTie(ratio) == ~Less(ratio, Frac(1, 1))

\* if ratio > 1
IsViolation(ratio) == Less(Frac(1, 1), ratio)

\* len([r for r in ratios if <test>]) for the three tests of ratio_distribution
RECURSIVE Count(_, _)
Count(ratios, bucket) ==
    IF ratios = <<>> THEN 0
    ELSE LET r == Head(ratios)
             in == CASE bucket = "0-33%" -> Less(r, Frac(33, 100))
                     [] bucket = "33-66%" -> ~Less(r, Frac(33, 100)) /\ Less(r, Frac(66, 100))
                     [] bucket = "66-100%" -> ~Less(r, Frac(66, 100))
         IN  (IF in THEN 1 ELSE 0) + Count(Tail(ratios), bucket)

\* ratios = [d['ratio'] for d in run_data]
Ratios(rd) == [j \in 1 .. Len(rd) |-> rd[j].ratio]

\* stats when run_data is empty: {}
NoStats == [present |-> FALSE, low |-> 0, medium |-> 0, high |-> 0]

\* stats when run_data is not empty and mean, median and stdev returned. The
\* float values of mean_ratio, median_ratio and std_ratio are not represented.
Stats(rd) ==
    [present |-> TRUE,
     low |-> Count(Ratios(rd), "0-33%"),
     medium |-> Count(Ratios(rd), "33-66%"),
     high |-> Count(Ratios(rd), "66-100%")]

\* statistics.stdev raises StatisticsError on fewer than two data points.
StdevNeedsMore(ratios) == Len(ratios) < 2

\* With a non-finite data point stdev's outcome depends on the interpreter:
\* CPython up to 3.10 returns nan, CPython 3.11 raises AttributeError.
StdevNonFinite(ratios) == \E j \in 1 .. Len(ratios) : ~IsFinite(ratios[j])

PrefixLen == 50

Min(a, b) == IF a < b THEN a ELSE b

NoResult == [present |-> FALSE]

\* The dict validate_number returns.
Result(viol, maxr, zero_runs, bits, st, trans, fac, num, rd) ==
    [present |-> TRUE,
     valid |-> Len(viol) = 0,
     violations |-> viol,
     max_ratio |-> maxr,
     total_runs |-> Len(zero_runs),
     binary_prefix |-> SubSeq(bits, 1, Min(PrefixLen, Len(bits))),
     stats |-> st,
     number_type |-> IF trans THEN "transcendental" ELSE "algebraic",
     factor |-> fac,
     factor_name |-> IF trans THEN "mu (irrationality measure)" ELSE "d (degree)",
     number |-> num,
     run_data |-> rd]

(***************************************************************************)
(* find_zero_runs: one iteration of the scan, and the flush after it.      *)
(***************************************************************************)
ScanStepNoReset(rs, cr, sp, idx, bit) ==
    IF bit = 0
    THEN [runs |-> rs,
          current_run |-> cr + 1,
          start_position |-> IF sp = -1 THEN idx ELSE sp]
    ELSE [runs |-> IF cr > 0 THEN Append(rs, <<sp, cr>>) ELSE rs,
          current_run |-> cr,
          start_position |-> sp]

ScanStep(rs, cr, sp, idx, bit) ==
    IF bit = 0
    THEN [runs |-> rs,
          current_run |-> cr + 1,
          start_position |-> IF sp = -1 THEN idx ELSE sp]
    ELSE [runs |-> IF cr > 0 THEN Append(rs, <<sp, cr>>) ELSE rs,
          current_run |-> 0,
          start_position |-> -1]

FinalRunsNoFlush(rs, cr, sp) == rs

FinalRuns(rs, cr, sp) == IF cr > 0 THEN Append(rs, <<sp, cr>>) ELSE rs

(***************************************************************************)
(* The program.                                                            *)
(***************************************************************************)
Precisions == 1 .. MaxPrecision
Lengths == 0 .. MaxLen
Factors == {<<0, 1>>, <<1, 1>>, <<2, 1>>, <<100, 33>>}

ConstructedDpsUnset(p) == ModulePrecision

\* mp.dps and the decimal precision after NumberValidator(precision = p)
ConstructedDps(p) == p
ConstructedDecimalPrec(p) == p

Idle ==
    /\ number = 0 /\ factor = <<0, 1>> /\ length = 0 /\ is_transcendental = FALSE
    /\ mp_frac = 0 /\ binary = <<>> /\ i = 0 /\ runs = <<>> /\ current_run = 0
    /\ start_position = -1 /\ k = 0 /\ run_data = <<>> /\ violations = <<>>
    /\ max_ratio = Frac(0, 1) /\ result = NoResult /\ error = ""

\* The module is imported: lines 12-13 have set both precisions.
Init ==
    /\ pc = "loaded"
    /\ mp_dps = ModulePrecision
    /\ decimal_prec = ModulePrecision
    /\ precision = 0
    /\ Idle
    /\ test_cases = <<>> /\ results = <<>> /\ report = <<"none">>

\* NumberValidator(precision = p)
ConstructWith(p) ==
    /\ pc = "loaded"
    /\ precision' = p
    /\ decimal_prec' = ConstructedDecimalPrec(p)
    /\ mp_dps' = ConstructedDps(p)
    /\ pc' = "ready"
    /\ UNCHANGED <<number, factor, length, is_transcendental, mp_frac, binary, i,
                   runs, current_run, start_position, k, run_data, violations,
                   max_ratio, result, error, test_cases, results, report>>

Construct == \E p \in Precisions : ConstructWith(p)

\* mp_frac = mp_num - mp.floor(mp_num), with mp_num = mp.mpf(str(num)). The
\* difference has no more significant bits than mp_num, so it is exact.
FracPart(num, dps) == Mpf(Str(num), dps) % Unit(dps)

\* validate_number(num, fac, len, is_transcendental = trans) is entered and
\* get_binary_expansion(num, len) starts.
BeginValidate(num, fac, len, trans) ==
    /\ number' = num /\ factor' = fac /\ length' = len /\ is_transcendental' = trans
    /\ mp_frac' = FracPart(num, mp_dps)
    /\ binary' = <<>>
    /\ i' = 0 /\ runs' = <<>> /\ current_run' = 0 /\ start_position' = -1
    /\ k' = 0 /\ run_data' = <<>> /\ violations' = <<>> /\ max_ratio' = Frac(0, 1)
    /\ result' = NoResult /\ error' = ""
    /\ pc' = "expand"
    /\ UNCHANGED <<mp_dps, decimal_prec, precision>>

CallValidate ==
    /\ pc = "ready"
    /\ \E num \in Numbers, fac \in Factors, len \in Lengths, trans \in BOOLEAN :
           BeginValidate(num, fac, len, trans)
    /\ UNCHANGED <<test_cases, results, report>>

\* One iteration of the loop of get_binary_expansion.
ExpandStep ==
    /\ pc = "expand"
    /\ Len(binary) < length
    /\ LET doubled == 2 * mp_frac
           bit == doubled \div Unit(mp_dps)
       IN  /\ binary' = Append(binary, bit)
           /\ mp_frac' = doubled - bit * Unit(mp_dps)
    /\ UNCHANGED <<pc, mp_dps, decimal_prec, precision, number, factor, length,
                   is_transcendental, i, runs, current_run, start_position, k,
                   run_data, violations, max_ratio, result, error, test_cases,
                   results, report>>

\* get_binary_expansion returns and find_zero_runs(binary) starts.
ExpandReturn ==
    /\ pc = "expand"
    /\ Len(binary) = length
    /\ pc' = "scan"
    /\ i' = 0 /\ runs' = <<>> /\ current_run' = 0 /\ start_position' = -1
    /\ UNCHANGED <<mp_dps, decimal_prec, precision, number, factor, length,
                   is_transcendental, mp_frac, binary, k, run_data, violations,
                   max_ratio, result, error, test_cases, results, report>>

\* One iteration of the loop of find_zero_runs.
ScanBit ==
    /\ pc \in {"scan", "scan_only"}
    /\ i < Len(binary)
    /\ LET st == ScanStep(runs, current_run, start_position, i, binary[i + 1])
       IN  /\ runs' = st.runs
           /\ current_run' = st.current_run
           /\ start_position' = st.start_position
    /\ i' = i + 1
    /\ UNCHANGED <<pc, mp_dps, decimal_prec, precision, number, factor, length,
                   is_transcendental, mp_frac, binary, k, run_data, violations,
                   max_ratio, result, error, test_cases, results, report>>

\* find_zero_runs returns to validate_number, whose loop over zero_runs starts.
ScanEnd ==
    /\ pc = "scan"
    /\ i = Len(binary)
    /\ runs' = FinalRuns(runs, current_run, start_position)
    /\ pc' = "analyze"
    /\ k' = 0 /\ run_data' = <<>> /\ violations' = <<>> /\ max_ratio' = Frac(0, 1)
    /\ UNCHANGED <<mp_dps, decimal_prec, precision, number, factor, length,
                   is_transcendental, mp_frac, binary, i, current_run,
                   start_position, result, error, test_cases, results, report>>

\* find_zero_runs called on its own returns.
FindRunsReturn ==
    /\ pc = "scan_only"
    /\ i = Len(binary)
    /\ runs' = FinalRuns(runs, current_run, start_position)
    /\ pc' = "found"
    /\ UNCHANGED <<mp_dps, decimal_prec, precision, number, factor, length,
                   is_transcendental, mp_frac, binary, i, current_run,
                   start_position, k, run_data, violations, max_ratio, result,
                   error, test_cases, results, report>>

\* One iteration of the loop of validate_number over zero_runs.
AnalyzeRun ==
    /\ pc = "analyze"
    /\ k < Len(runs)
    /\ k' = k + 1
    /\ LET position == runs[k + 1][1]
           run_length == runs[k + 1][2]
           bound == Bound(factor, position)
           ratio == Ratio(run_length, bound)
       IN  \/ /\ SkipsRun(position)
              /\ UNCHANGED <<run_data, violations, max_ratio>>
           \/ /\ ~SkipsRun(position)
              /\ max_ratio' = Max(max_ratio, ratio)
              /\ run_data' = Append(run_data,
                     [position |-> position, length |-> run_length,
                      bound |-> bound, ratio |-> ratio])
              /\ violations' =
                     IF IsViolation(ratio)
                     THEN Append(violations,
                              [position |-> position, run_length |-> run_length,
                               bound |-> bound, ratio |-> ratio])
                     ELSE violations
    /\ UNCHANGED <<pc, mp_dps, decimal_prec, precision, number, factor, length,
                   is_transcendental, mp_frac, binary, i, runs, current_run,
                   start_position, result, error, test_cases, results, report>>

\* The statistics and the return of validate_number.
Finish ==
    /\ pc = "analyze"
    /\ k = Len(runs)
    /\ \/ /\ run_data = <<>>
          /\ result' = Result(violations, max_ratio, runs, binary, NoStats,
                              is_transcendental, factor, number, run_data)
          /\ pc' = "returned"
          /\ UNCHANGED error
       \/ /\ run_data # <<>>
          /\ ~StdevNeedsMore(Ratios(run_data))
          /\ result' = Result(violations, max_ratio, runs, binary, Stats(run_data),
                              is_transcendental, factor, number, run_data)
          /\ pc' = "returned"
          /\ UNCHANGED error
       \/ /\ run_data # <<>>
          /\ StdevNeedsMore(Ratios(run_data))
          /\ error' = "StatisticsError"
          /\ pc' = "raised"
          /\ UNCHANGED result
       \/ /\ run_data # <<>>
          /\ ~StdevNeedsMore(Ratios(run_data))
          /\ StdevNonFinite(Ratios(run_data))
          /\ error' = "AttributeError"
          /\ pc' = "raised"
          /\ UNCHANGED result
    /\ UNCHANGED <<mp_dps, decimal_prec, precision, number, factor, length,
                   is_transcendental, mp_frac, binary, i, runs, current_run,
                   start_position, k, run_data, violations, max_ratio,
                   test_cases, results, report>>

\* A NumberValidator is constructed and validate_number is called once.
Next ==
    \/ Construct
    \/ CallValidate
    \/ ExpandStep
    \/ ExpandReturn
    \/ ScanBit
    \/ ScanEnd
    \/ AnalyzeRun
    \/ Finish

Spec == Init /\ [][Next]_vars

(***************************************************************************)
(* find_zero_runs on an arbitrary bit sequence.                            *)
(***************************************************************************)
BitSeqs == UNION {[1 .. n -> {0, 1}] : n \in 0 .. MaxLen}

InitRuns ==
    /\ pc = "scan_only"
    /\ mp_dps = ModulePrecision
    /\ decimal_prec = ModulePrecision
    /\ precision = 0
    /\ number = 0 /\ factor = <<0, 1>> /\ length = 0 /\ is_transcendental = FALSE
    /\ mp_frac = 0
    /\ binary \in BitSeqs
    /\ i = 0 /\ runs = <<>> /\ current_run = 0 /\ start_position = -1
    /\ k = 0 /\ run_data = <<>> /\ violations = <<>> /\ max_ratio = Frac(0, 1)
    /\ result = NoResult /\ error = ""
    /\ test_cases = <<>> /\ results = <<>> /\ report = <<"none">>

NextRuns ==
    \/ ScanBit
    \/ FindRunsReturn

SpecRuns == InitRuns /\ [][NextRuns]_vars

(***************************************************************************)
(* run_analysis followed by create_report (the __main__ block).            *)
(***************************************************************************)
\* The precision and the length run_analysis uses: 4000 and 4000 in the
\* source, the largest of the model here.
RunPrecision == MaxPrecision
test_length == MaxLen

\* The test cases a batch is drawn from: fractional parts, as in the source.
\* name is the label of the case; it is the numerator of its number here.
BatchCases ==
    {[number |-> m, factor |-> ft[1], name |-> m, type |-> ft[2]] :
        m \in 0 .. (Pow2(FloatBits) - 1),
        ft \in {<<<<2, 1>>, "algebraic">>, <<<<1, 1>>, "transcendental">>}}

SeqsUpTo(S, n) == UNION {[1 .. j -> S] : j \in 0 .. n}

InitBatch ==
    /\ pc = "loaded"
    /\ mp_dps = ModulePrecision
    /\ decimal_prec = ModulePrecision
    /\ precision = 0
    /\ Idle
    /\ test_cases \in SeqsUpTo(BatchCases, MaxCases)
    /\ results = <<>> /\ report = <<"none">>

\* validator = NumberValidator(precision=4000)
RunAnalysisStart == ConstructWith(RunPrecision)

\* The next iteration of the loop of run_analysis calls validate_number.
LoopCall ==
    /\ pc = "ready"
    /\ Len(results) < Len(test_cases)
    /\ LET case == test_cases[Len(results) + 1]
       IN  BeginValidate(case.number, case.factor, test_length,
                         case.type = "transcendental")
    /\ UNCHANGED <<test_cases, results, report>>

\* results.append((case, result))
LoopAppend ==
    /\ pc = "returned"
    /\ results' = Append(results, <<test_cases[Len(results) + 1], result>>)
    /\ pc' = "ready"
    /\ UNCHANGED <<mp_dps, decimal_prec, precision, number, factor, length,
                   is_transcendental, mp_frac, binary, i, runs, current_run,
                   start_position, k, run_data, violations, max_ratio, result,
                   error, test_cases, report>>

\* ''.join(map(str, result['binary_prefix']))
JoinBits(bits) == [j \in 1 .. Len(bits) |-> IF bits[j] = 0 THEN "0" ELSE "1"]

\* One report_entry of create_report. The numbers are Python floats or ints, which
\* float() and convert_to_serializable leave as they are.
ReportEntry(pair) ==
    LET case == pair[1]
        res == pair[2]
    IN  [name |-> case.name,
         type |-> case.type,
         number |-> res.number,
         factor |-> res.factor,
         factor_name |-> res.factor_name,
         valid |-> res.valid,
         max_ratio |-> res.max_ratio,
         total_runs |-> res.total_runs,
         violations |-> res.violations,
         stats |-> res.stats,
         binary_prefix |-> JoinBits(res.binary_prefix),
         run_data |-> res.run_data]

ReportDataValidOnly(rs) ==
    LET kept == SelectSeq(rs, LAMBDA pair : pair[2].valid)
    IN  [j \in 1 .. Len(kept) |-> ReportEntry(kept[j])]

\* report_data of create_report
ReportData(rs) == [j \in 1 .. Len(rs) |-> ReportEntry(rs[j])]

\* run_analysis returns results and create_report(results) dumps the report.
CreateReport ==
    /\ pc = "ready"
    /\ Len(results) = Len(test_cases)
    /\ report' = ReportData(results)
    /\ pc' = "done"
    /\ UNCHANGED <<mp_dps, decimal_prec, precision, number, factor, length,
                   is_transcendental, mp_frac, binary, i, runs, current_run,
                   start_position, k, run_data, violations, max_ratio, result,
                   error, test_cases, results>>

\* An exception of validate_number is caught nowhere: at pc = "raised" the
\* program has ended and no action is enabled.
NextBatch ==
    \/ RunAnalysisStart
    \/ LoopCall
    \/ ExpandStep
    \/ ExpandReturn
    \/ ScanBit
    \/ ScanEnd
    \/ AnalyzeRun
    \/ Finish
    \/ LoopAppend
    \/ CreateReport

SpecBatch == InitBatch /\ [][NextBatch]_vars

(***************************************************************************)
(* The claims.                                                             *)
(***************************************************************************)
RunStart(r) == r[1]
RunEnd(r) == r[1] + r[2]            \* one past the last bit of the run
ZeroCount(bits) == Cardinality({j \in 1 .. Len(bits) : bits[j] = 0})

RECURSIVE SumLengths(_)
SumLengths(rs) == IF rs = <<>> THEN 0 ELSE Head(rs)[2] + SumLengths(Tail(rs))

\* C1: the runs find_zero_runs returns lie inside the sequence, do not
\* overlap, ascend strictly by start, their lengths sum to the number of zero
\* bits, every zero bit lies in exactly one run, an all-ones sequence gives no
\* run and an all-zeros sequence gives the single run (0, length).
C1_RunsPartitionZeros ==
    pc = "found" =>
        /\ \A j \in 1 .. Len(runs) :
               RunStart(runs[j]) >= 0 /\ RunEnd(runs[j]) <= Len(binary)
        /\ \A j \in 1 .. (Len(runs) - 1) :
               /\ RunStart(runs[j]) < RunStart(runs[j + 1])
               /\ RunEnd(runs[j]) <= RunStart(runs[j + 1])
        /\ SumLengths(runs) = ZeroCount(binary)
        /\ \A b \in 1 .. Len(binary) :
               binary[b] = 0 =>
                   Cardinality({j \in 1 .. Len(runs) :
                       RunStart(runs[j]) <= b - 1 /\ b - 1 < RunEnd(runs[j])}) = 1
        /\ ZeroCount(binary) = 0 => runs = <<>>
        /\ (binary # <<>> /\ ZeroCount(binary) = Len(binary)) =>
               runs = << <<0, Len(binary)>> >>

C1_Witness ==
    /\ pc = "found"
    /\ Len(runs) >= 2
    /\ binary[1] = 0
    /\ binary[Len(binary)] = 0

\* C2: every run find_zero_runs returns is maximal: it has at least one bit,
\* all its bits are 0, the bit before it is 1 or it starts the sequence, and
\* the bit after it is 1 or it ends the sequence.
C2_RunsMaximal ==
    pc = "found" =>
        \A j \in 1 .. Len(runs) :
            LET start == RunStart(runs[j])
                end == RunEnd(runs[j])
            IN  /\ runs[j][2] >= 1
                /\ start >= 0 /\ end <= Len(binary)
                /\ \A b \in (start + 1) .. end : binary[b] = 0
                /\ start = 0 \/ binary[start] = 1
                /\ end = Len(binary) \/ binary[end + 1] = 1

C2_Witness ==
    /\ pc = "found"
    /\ Len(runs) >= 2
    /\ RunStart(runs[1]) >= 1
    /\ runs[1][2] >= 2
    /\ RunEnd(runs[Len(runs)]) = Len(binary)

\* The k-th binary digit (k from 0) of the fractional part of the float m.
TrueBit(m, kk) == (((m % Pow2(FloatBits)) * Pow2(kk + 1)) \div Pow2(FloatBits)) % 2

Expanded == pc \in {"scan", "analyze", "returned", "raised"}
Analysed == pc \in {"returned", "raised"}

\* C3: get_binary_expansion returns exactly `length` bits, each 0 or 1, the
\* k-th of which is the k-th binary digit of the fractional part of the value
\* it was given.
C3_ExpansionIsTheValue ==
    Expanded =>
        /\ Len(binary) = length
        /\ \A j \in 1 .. Len(binary) :
               binary[j] \in {0, 1} /\ binary[j] = TrueBit(number, j - 1)

\* C4: a run starting at position 0 gives no entry of run_data or violations
\* and is counted in total_runs; every other run gives exactly one entry of
\* run_data, in the order of the runs.
C4_PositionZeroSkipped ==
    Analysed =>
        LET off == IF binary # <<>> /\ binary[1] = 0 THEN 1 ELSE 0
        IN  /\ Len(run_data) = Len(runs) - off
            /\ \A j \in 1 .. Len(run_data) :
                   /\ run_data[j].position = runs[j + off][1]
                   /\ run_data[j].length = runs[j + off][2]
                   /\ run_data[j].position >= 1
            /\ \A j \in 1 .. Len(violations) : violations[j].position >= 1
            /\ result.present =>
                   /\ result.total_runs = Len(runs)
                   /\ result.run_data = run_data
                   /\ result.violations = violations

C4_Witness ==
    /\ pc = "returned"
    /\ binary # <<>>
    /\ binary[1] = 0
    /\ Len(result.run_data) >= 2
    /\ result.total_runs = Len(result.run_data) + 1

\* ratio > 1, on the fraction, float('inf') included
Exceeds1(r) == r.den = 0 \/ r.num > r.den

RECURSIVE OverOne(_)
OverOne(rd) ==
    IF rd = <<>> THEN <<>>
    ELSE (IF Exceeds1(Head(rd).ratio)
          THEN << [position |-> Head(rd).position, run_length |-> Head(rd).length,
                   bound |-> Head(rd).bound, ratio |-> Head(rd).ratio] >>
          ELSE <<>>) \o OverOne(Tail(rd))

\* C5: violations is the subsequence, in order, of the run analyses whose
\* ratio is strictly greater than 1, and valid holds exactly when there is
\* none.
C5_ViolationsAreRatiosOverOne ==
    result.present =>
        /\ result.violations = OverOne(result.run_data)
        /\ result.valid = (\A j \in 1 .. Len(result.run_data) :
                               ~Exceeds1(result.run_data[j].ratio))
        /\ result.valid = (result.violations = <<>>)

C5_Witness ==
    /\ result.present
    /\ Len(result.run_data) >= 2
    /\ \E j \in 1 .. Len(result.run_data) :
           result.run_data[j].ratio.num = result.run_data[j].ratio.den
    /\ result.valid

\* C6: with fewer than 2 run analyses validate_number returns a result whose
\* statistics are empty; it does not fail.
C6_FewRunsStillReturn ==
    (Analysed /\ Len(run_data) < 2) =>
        /\ pc = "returned"
        /\ result.present
        /\ ~result.stats.present

FiniteCount(rd) == Cardinality({j \in 1 .. Len(rd) : IsFinite(rd[j].ratio)})

\* C7: when statistics are computed the three buckets partition the ratios:
\* low counts those under 33/100, medium those from 33/100 and under 66/100,
\* high those from 66/100, and the counts sum to the number of run analyses
\* with a finite ratio.
C7_BucketsPartitionFiniteRatios ==
    (result.present /\ result.stats.present) =>
        LET rd == result.run_data
            lows == {j \in 1 .. Len(rd) : 100 * rd[j].ratio.num < 33 * rd[j].ratio.den}
            highs == {j \in 1 .. Len(rd) :
                         IsFinite(rd[j].ratio)
                         /\ 100 * rd[j].ratio.num >= 66 * rd[j].ratio.den}
        IN  /\ result.stats.low = Cardinality(lows)
            /\ result.stats.high = Cardinality(highs)
            /\ result.stats.medium = FiniteCount(rd) - Cardinality(lows) - Cardinality(highs)
            /\ result.stats.low + result.stats.medium + result.stats.high = FiniteCount(rd)

SameValue(a, b) == a.num * b.den = b.num * a.den /\ (a.den = 0) = (b.den = 0)

\* C8: max_ratio is the largest ratio of the run analyses, 0 when there is
\* none, and no entry of run_data or violations has a larger ratio.
C8_MaxRatioIsMaximum ==
    result.present =>
        /\ result.run_data = <<>> => result.max_ratio = Frac(0, 1)
        /\ result.run_data # <<>> =>
               \E j \in 1 .. Len(result.run_data) :
                   SameValue(result.max_ratio, result.run_data[j].ratio)
        /\ \A j \in 1 .. Len(result.run_data) :
               ~Less(result.max_ratio, result.run_data[j].ratio)
        /\ \A j \in 1 .. Len(result.violations) :
               ~Less(result.max_ratio, result.violations[j].ratio)

C8_Witness ==
    /\ result.present
    /\ Len(result.run_data) >= 2
    /\ SameValue(result.max_ratio, result.run_data[1].ratio)
    /\ Less(result.run_data[Len(result.run_data)].ratio, result.max_ratio)

\* C9: the report holds one record per test case, in the order of the test
\* cases; the results gathered so far are those of the first test cases in
\* order; and once a validation has failed the batch has ended without a
\* report: no test case is dropped with the batch going on.
C9_ReportKeepsEveryCase ==
    /\ Len(results) <= Len(test_cases)
    /\ \A j \in 1 .. Len(results) :
           /\ results[j][1] = test_cases[j]
           /\ results[j][2].present
           /\ results[j][2].number = test_cases[j].number
    /\ pc = "done" =>
           /\ Len(report) = Len(test_cases)
           /\ \A j \in 1 .. Len(report) :
                  /\ report[j].name = test_cases[j].name
                  /\ report[j].type = test_cases[j].type
                  /\ report[j].number = test_cases[j].number
                  /\ report[j].factor = test_cases[j].factor
    /\ pc # "done" => report = <<"none">>
    /\ error # "" => pc = "raised" /\ Len(results) < Len(test_cases)

C9_Witness ==
    /\ pc = "done"
    /\ Len(report) = MaxCases
    /\ report[1].name # report[MaxCases].name
    /\ ~report[1].valid
    /\ report[MaxCases].valid

\* C10: the process-wide precision is set when the validator is constructed,
\* to the validator's precision, and no later step changes it.
C10_PrecisionFixedAtConstruction ==
    [][/\ pc' # "loaded" =>
              mp_dps' = precision' /\ decimal_prec' = precision'
       /\ pc # "loaded" =>
              mp_dps' = mp_dps /\ decimal_prec' = decimal_prec /\ precision' = precision
       /\ (pc = "loaded" /\ pc' # "loaded") => precision' = RunPrecision]_vars

C10_Witness ==
    /\ pc = "done"
    /\ Len(results) = MaxCases
    /\ mp_dps = RunPrecision
    /\ mp_dps # ModulePrecision

=============================================================================
